---- MODULE Spec2Model ----
(***************************************************************************)
(* Verification model of the simulated arbitrage bot in src/main.py:       *)
(* Exchange (get_price, calculate_fee) and ArbitrageBot (__init__,         *)
(* update_market_prices, find_arbitrage_opportunity, execute_trade, run).  *)
(*                                                                         *)
(* Python floats are modelled as exact rationals [n, d] in lowest terms    *)
(* with d > 0, so every arithmetic expression of the source is evaluated   *)
(* in the order the source evaluates it, without rounding.  The random     *)
(* draws of random.uniform are nondeterministic choices from small sets    *)
(* of values inside the interval the source draws from.  The console       *)
(* output, the wall-clock timestamp of a trade record and time.sleep are   *)
(* not part of the state.                                                  *)
(***************************************************************************)
EXTENDS Integers, Sequences, FiniteSets, TLC

\* ------------------------------------------------------------------------
\* Bounds of the model
\* ------------------------------------------------------------------------
\* largest num_iterations passed to run
MaxIter == 2
\* base prices move on the integer grid 1..MaxBase
MaxBase == 200

\* ------------------------------------------------------------------------
\* Exact rational arithmetic standing for Python float arithmetic
\* ------------------------------------------------------------------------
Abs(x) == IF x < 0 THEN -x ELSE x

RECURSIVE Gcd(_, _)
Gcd(a, b) == IF b = 0 THEN a ELSE Gcd(b, a % b)

RNorm(n, d) ==
    LET s == IF d < 0 THEN -1 ELSE 1
        g == Gcd(Abs(n), Abs(d))
    IN  [n |-> (s * n) \div g, d |-> (s * d) \div g]

R(k) == [n |-> k, d |-> 1]

RNeg(a) == [n |-> -a.n, d |-> a.d]

RAdd(a, b) ==
    LET g == Gcd(a.d, b.d)
    IN  RNorm(a.n * (b.d \div g) + b.n * (a.d \div g), (a.d \div g) * b.d)

RSub(a, b) == RAdd(a, RNeg(b))

RMul(a, b) ==
    LET g1 == Gcd(Abs(a.n), b.d)
        g2 == Gcd(Abs(b.n), a.d)
    IN  RNorm((a.n \div g1) * (b.n \div g2), (a.d \div g2) * (b.d \div g1))

RDiv(a, b) == RMul(a, RNorm(b.d, b.n))

RLt(a, b) == a.n * b.d < b.n * a.d
RLe(a, b) == a.n * b.d <= b.n * a.d
RGt(a, b) == RLt(b, a)
RGe(a, b) == RLe(b, a)

\* ------------------------------------------------------------------------
\* Program constants
\* ------------------------------------------------------------------------
\* def __init__(self, initial_capital: float = 10000)
DefaultInitialCapital == 10000
\* self.trading_fee / 100
FeePercentScale == 100
\* trade_amount = self.capital * 0.1
TradeFraction == [n |-> 1, d |-> 10]
\* random.uniform(-0.005, 0.005)
MarketMove == [n |-> 1, d |-> 200]
\* profit_pct = (...) * 100
PctScale == 100
\* best_opportunity = None; "if not opportunity"; "return None"
None == <<>>

\* random.uniform(a, b): the two ends of the interval stand for the draw
Uniform(a, b) == {a, b}

\* ------------------------------------------------------------------------
\* Configuration
\* ------------------------------------------------------------------------
Exchange(name, trading_fee, price_variation) ==
    [name |-> name, trading_fee |-> trading_fee,
     price_variation |-> price_variation]

Tenth == [n |-> 1, d |-> 10]
Twentieth == [n |-> 1, d |-> 20]

\* exchange lists the bot is constructed with (fee in percent, variation as
\* a fraction)
ExchangeConfigs ==
    { << Exchange("A", R(10), Tenth) >>,
      << Exchange("A", R(0), R(0)), Exchange("B", R(0), Tenth) >>,
      << Exchange("A", R(0), Tenth), Exchange("B", R(10), Tenth) >>,
      << Exchange("A", R(10), Tenth), Exchange("B", R(0), R(0)),
         Exchange("C", R(0), R(0)) >>,
      << Exchange("A", R(0), Tenth), Exchange("B", R(10), R(0)),
         Exchange("C", R(0), Twentieth) >> }

\* exchange lists no validation rejects: a negative fee rate, a negative
\* price variation
InvalidExchangeConfigs ==
    { << Exchange("A", R(-10), Tenth), Exchange("B", R(0), Tenth) >>,
      << Exchange("A", R(0), R(0)), Exchange("B", R(0), RNeg(Tenth)) >> }

coins == << "SOL", "ETH" >>
CoinSet == { coins[k] : k \in 1..Len(coins) }
InitialBasePrices == [c \in CoinSet |-> IF c = "SOL" THEN R(100) ELSE R(200)]

\* min_profit values passed to run (percent)
Thresholds == { R(-20), R(0), R(10) }

VARIABLES
    initial_capital,    \* the constructor argument
    exchanges,          \* self.exchanges
    base_prices,        \* self.base_prices
    capital,            \* self.capital
    trades,             \* self.trades
    total_profit,       \* self.total_profit
    successful_trades,  \* self.successful_trades
    failed_trades,      \* self.failed_trades
    num_iterations,     \* run's argument
    min_profit,         \* run's argument
    i,                  \* iterations of run's loop completed
    pc,                 \* position in run
    prices,             \* the quotes of the last scan, per coin and exchange
    opportunity,        \* run's local: result of find_arbitrage_opportunity
    trade               \* run's local: result of execute_trade

vars == << initial_capital, exchanges, base_prices, capital, trades,
           total_profit, successful_trades, failed_trades, num_iterations,
           min_profit, i, pc, prices, opportunity, trade >>

config == << initial_capital, exchanges >>
ledger == << capital, trades, total_profit, successful_trades, failed_trades >>

\* ------------------------------------------------------------------------
\* Exchange
\* ------------------------------------------------------------------------
\* variation = 1 + random.uniform(-pv, pv); return base_price * variation
get_price(exchange, base_price, u) == RMul(base_price, RAdd(R(1), u))

\* return amount * (self.trading_fee / 100)
calculate_fee(exchange, amount) ==
    RMul(amount, RDiv(exchange.trading_fee, R(FeePercentScale)))

\* ------------------------------------------------------------------------
\* ArbitrageBot.__init__
\* ------------------------------------------------------------------------
Construct(cap, exs) ==
    /\ initial_capital = cap
    /\ exchanges = exs
    /\ capital = cap
    /\ base_prices = InitialBasePrices
    /\ trades = << >>
    /\ total_profit = R(0)
    /\ successful_trades = 0
    /\ failed_trades = 0
    /\ num_iterations = 0
    /\ min_profit = R(0)
    /\ i = 0
    /\ pc = "idle"
    /\ prices = [c \in CoinSet |-> << >>]
    /\ opportunity = None
    /\ trade = None

Init == \E exs \in ExchangeConfigs : Construct(R(DefaultInitialCapital), exs)

\* every configuration the constructor accepts
InitAny ==
    \E cap \in { R(DefaultInitialCapital), R(0), R(-DefaultInitialCapital) },
       exs \in ExchangeConfigs \cup InvalidExchangeConfigs :
        Construct(cap, exs)

\* ------------------------------------------------------------------------
\* ArbitrageBot.run: entry, before the loop
\* ------------------------------------------------------------------------
run ==
    /\ pc = "idle"
    /\ \E n \in 0..MaxIter, mp \in Thresholds :
        /\ num_iterations' = n
        /\ min_profit' = mp
        /\ pc' = IF n > 0 THEN "update" ELSE "done"
    /\ UNCHANGED << config, base_prices, ledger, i, prices, opportunity, trade >>

\* ------------------------------------------------------------------------
\* ArbitrageBot.update_market_prices
\* ------------------------------------------------------------------------
\* market_change = random.uniform(-0.005, 0.005): the draws that move the
\* base price p to a point of the price grid
MarketChanges(p) ==
    { RDiv(RSub(R(q), p), p) :
        q \in { x \in 1..MaxBase :
                  Abs(x * p.d - p.n) * MarketMove.d <= MarketMove.n * p.n } }

update_market_prices ==
    /\ pc = "update"
    /\ LET M == [c \in CoinSet |-> MarketChanges(base_prices[c])]
       IN  \E ch \in [CoinSet -> UNION { M[c] : c \in CoinSet }] :
            /\ \A c \in CoinSet : ch[c] \in M[c]
            /\ base_prices' =
                  [c \in CoinSet |-> RMul(base_prices[c], RAdd(R(1), ch[c]))]
    /\ pc' = "find"
    /\ UNCHANGED << config, ledger, num_iterations, min_profit, i, prices,
                    opportunity, trade >>

\* ------------------------------------------------------------------------
\* ArbitrageBot.find_arbitrage_opportunity
\* ------------------------------------------------------------------------
\* sorted(prices.items(), key=price): a stable sort of the exchanges (by
\* position in self.exchanges) on their quote; an entry goes after every
\* entry already placed whose price is not greater
Insert_BeforeEquals(s, k, q) ==
    LET j == Cardinality({ m \in 1..Len(s) : RLt(q[s[m]], q[k]) })
    IN  SubSeq(s, 1, j) \o << k >> \o SubSeq(s, j + 1, Len(s))

Insert(s, k, q) ==
    LET j == Cardinality({ m \in 1..Len(s) : RLe(q[s[m]], q[k]) })
    IN  SubSeq(s, 1, j) \o << k >> \o SubSeq(s, j + 1, Len(s))

RECURSIVE SortFrom(_, _, _)
SortFrom(s, k, q) ==
    IF k > Len(q) THEN s ELSE SortFrom(Insert(s, k, q), k + 1, q)

sorted(q) == SortFrom(<< >>, 1, q)

LowestEntry_OffByOne(sorted_prices) ==
    sorted_prices[IF Len(sorted_prices) > 1 THEN 2 ELSE 1]

\* sorted_prices[0]
LowestEntry(sorted_prices) == sorted_prices[1]
\* sorted_prices[-1]
HighestEntry(sorted_prices) == sorted_prices[Len(sorted_prices)]

\* profit_pct = ((net_sell_price - net_buy_price) / net_buy_price) * 100
ProfitPct(net_buy_price, net_sell_price) ==
    RMul(RDiv(RSub(net_sell_price, net_buy_price), net_buy_price), R(PctScale))

\* the body of the loop over coins, from the quotes q of one coin to the
\* candidate tuple
AssetScan(coin, exs, q) ==
    LET sorted_prices  == sorted(q)
        buy_exchange   == LowestEntry(sorted_prices)
        sell_exchange  == HighestEntry(sorted_prices)
        buy_price      == q[buy_exchange]
        sell_price     == q[sell_exchange]
        buy_fee        == calculate_fee(exs[buy_exchange], buy_price)
        sell_fee       == calculate_fee(exs[sell_exchange], sell_price)
        net_buy_price  == RAdd(buy_price, buy_fee)
        net_sell_price == RSub(sell_price, sell_fee)
    IN  [coin |-> coin,
         buy_exchange |-> buy_exchange,
         sell_exchange |-> sell_exchange,
         buy_price |-> buy_price,
         sell_price |-> sell_price,
         profit_pct |-> ProfitPct(net_buy_price, net_sell_price),
         buy_fee |-> buy_fee,
         sell_fee |-> sell_fee]

InitialBestProfitPct_Unbounded == R(-100)

\* best_profit_pct = 0
InitialBestProfitPct == R(0)

IsBetter_NotStrict(profit_pct, best_profit_pct, min_profit_threshold) ==
    /\ RGe(profit_pct, best_profit_pct)
    /\ RGe(profit_pct, min_profit_threshold)

IsBetter_ThresholdOnly(profit_pct, best_profit_pct, min_profit_threshold) ==
    RGe(profit_pct, min_profit_threshold)

\* if profit_pct > best_profit_pct and profit_pct >= min_profit_threshold
IsBetter(profit_pct, best_profit_pct, min_profit_threshold) ==
    /\ RGt(profit_pct, best_profit_pct)
    /\ RGe(profit_pct, min_profit_threshold)

\* the loop over self.coins from position k on, carrying best_opportunity
\* and best_profit_pct
RECURSIVE ScanFrom(_, _, _, _, _, _)
ScanFrom(k, best_opportunity, best_profit_pct, exs, qs, min_profit_threshold) ==
    IF k > Len(coins) THEN best_opportunity
    ELSE LET cand == AssetScan(coins[k], exs, qs[coins[k]])
         IN  IF IsBetter(cand.profit_pct, best_profit_pct, min_profit_threshold)
             THEN ScanFrom(k + 1, << cand >>, cand.profit_pct, exs, qs,
                           min_profit_threshold)
             ELSE ScanFrom(k + 1, best_opportunity, best_profit_pct, exs, qs,
                           min_profit_threshold)

FindBest(exs, qs, min_profit_threshold) ==
    ScanFrom(1, None, InitialBestProfitPct, exs, qs, min_profit_threshold)

\* the draws of one scan: one per coin and exchange, each from the
\* exchange's own interval
Draws(exs) ==
    LET U(k) == Uniform(RNeg(exs[k].price_variation), exs[k].price_variation)
        PerCoin == { f \in [1..Len(exs) -> UNION { U(k) : k \in 1..Len(exs) }] :
                       \A k \in 1..Len(exs) : f[k] \in U(k) }
    IN  [CoinSet -> PerCoin]

find_arbitrage_opportunity ==
    /\ pc = "find"
    /\ \E u \in Draws(exchanges) :
        LET qs == [c \in CoinSet |->
                     [k \in 1..Len(exchanges) |->
                        get_price(exchanges[k], base_prices[c], u[c][k])]]
        IN  /\ prices' = qs
            /\ opportunity' = FindBest(exchanges, qs, min_profit)
    /\ pc' = "execute"
    /\ UNCHANGED << config, base_prices, ledger, num_iterations, min_profit, i,
                    trade >>

\* ------------------------------------------------------------------------
\* ArbitrageBot.execute_trade
\* ------------------------------------------------------------------------
TradeAmount_OfInitial(cap, initial) == RMul(initial, TradeFraction)

\* trade_amount = self.capital * 0.1
TradeAmount(cap, initial) == RMul(cap, TradeFraction)

\* the trade record of an opportunity o executed at capital cap
TradeRecord(o, cap, initial) ==
    LET trade_amount       == TradeAmount(cap, initial)
        quantity           == RDiv(trade_amount, o.buy_price)
        total_buy_cost     == RAdd(RMul(o.buy_price, quantity),
                                   RMul(o.buy_fee, quantity))
        total_sell_revenue == RSub(RMul(o.sell_price, quantity),
                                   RMul(o.sell_fee, quantity))
        net_profit         == RSub(total_sell_revenue, total_buy_cost)
    IN  [coin |-> o.coin,
         quantity |-> quantity,
         buy_exchange |-> exchanges[o.buy_exchange].name,
         sell_exchange |-> exchanges[o.sell_exchange].name,
         buy_price |-> o.buy_price,
         sell_price |-> o.sell_price,
         buy_fee |-> RMul(o.buy_fee, quantity),
         sell_fee |-> RMul(o.sell_fee, quantity),
         total_fees |-> RMul(RAdd(o.buy_fee, o.sell_fee), quantity),
         net_profit |-> net_profit,
         profit_pct |-> o.profit_pct,
         capital_after |-> RAdd(cap, net_profit)]

ExecuteMiss_CountsTwice ==
    /\ failed_trades' = failed_trades + 1
    /\ successful_trades' = successful_trades + 1
    /\ trade' = None
    /\ UNCHANGED << capital, total_profit, trades >>

\* if not opportunity: self.failed_trades += 1; return None
ExecuteMiss ==
    /\ failed_trades' = failed_trades + 1
    /\ trade' = None
    /\ UNCHANGED << capital, total_profit, successful_trades, trades >>

ExecuteHit_NoRecord ==
    LET rec == TradeRecord(opportunity[1], capital, initial_capital)
    IN  /\ capital' = RAdd(capital, rec.net_profit)
        /\ total_profit' = RAdd(total_profit, rec.net_profit)
        /\ successful_trades' = successful_trades + 1
        /\ trade' = << rec >>
        /\ UNCHANGED << failed_trades, trades >>

\* the rest of execute_trade
ExecuteHit ==
    LET rec == TradeRecord(opportunity[1], capital, initial_capital)
    IN  /\ capital' = RAdd(capital, rec.net_profit)
        /\ total_profit' = RAdd(total_profit, rec.net_profit)
        /\ successful_trades' = successful_trades + 1
        /\ trades' = Append(trades, rec)
        /\ trade' = << rec >>
        /\ UNCHANGED failed_trades

\* execute_trade as run calls it, and the step of run's loop
execute_trade ==
    /\ pc = "execute"
    /\ IF opportunity = None THEN ExecuteMiss ELSE ExecuteHit
    /\ i' = i + 1
    /\ pc' = IF i + 1 < num_iterations THEN "update" ELSE "done"
    /\ UNCHANGED << config, base_prices, num_iterations, min_profit, prices,
                    opportunity >>

Next ==
    \/ run
    \/ update_market_prices
    \/ find_arbitrage_opportunity
    \/ execute_trade

Spec == Init /\ [][Next]_vars

\* the same program from every configuration the constructor accepts
SpecCfg == InitAny /\ [][Next]_vars

\* ------------------------------------------------------------------------
\* Properties
\* ------------------------------------------------------------------------
\* find_arbitrage_opportunity has returned and prices holds its quotes
Scanned == pc = "execute"

\* the candidate of coin c in the scan that has just run
Candidate(c) == AssetScan(c, exchanges, prices[c])
Pct(c) == Candidate(c).profit_pct

Qualifies(c) == RGe(Pct(c), min_profit)
Profitable(c) == RGt(Pct(c), R(0))

QuoteSet(q) == { q[k] : k \in 1..Len(q) }
IsMinOf(x, q) == x \in QuoteSet(q) /\ \A y \in QuoteSet(q) : RLe(x, y)
IsMaxOf(x, q) == x \in QuoteSet(q) /\ \A y \in QuoteSet(q) : RGe(x, y)
Reordered(q) ==
    { [k \in 1..Len(q) |-> q[p[k]]] : p \in Permutations(1..Len(q)) }

MinPositions(q) == { k \in 1..Len(q) : IsMinOf(q[k], q) }
MaxPositions(q) == { k \in 1..Len(q) : IsMaxOf(q[k], q) }
First(S) == CHOOSE k \in S : \A m \in S : k <= m
Last(S) == CHOOSE k \in S : \A m \in S : k >= m

CoinPos(c) == CHOOSE k \in 1..Len(coins) : coins[k] = c

\* C1 as stated: the scan returns none exactly when no asset's fee-adjusted
\* profit percentage reaches the threshold.
C1_NoneIffNoneQualifies ==
    Scanned => ((opportunity = None) <=> (\A c \in CoinSet : ~Qualifies(c)))

\* C1 amended: the scan returns none exactly when no asset's profit
\* percentage is both greater than 0 and at least the threshold.
C1_NoneIffNoneProfitableAndQualifying ==
    Scanned =>
        ((opportunity = None) <=>
            (\A c \in CoinSet : ~(Profitable(c) /\ Qualifies(c))))

C1_Witness ==
    /\ Scanned
    /\ opportunity = None
    /\ \E c \in CoinSet : Qualifies(c)

\* C2: execute_trade on no opportunity leaves capital, cumulative profit,
\* the success counter and the history unchanged, adds exactly 1 to the miss
\* counter and returns none, whatever the ledger holds.
C2_MissOnlyCounts ==
    [][ (pc = "execute" /\ opportunity = None) =>
            /\ capital' = capital
            /\ total_profit' = total_profit
            /\ successful_trades' = successful_trades
            /\ trades' = trades
            /\ failed_trades' = failed_trades + 1
            /\ trade' = None ]_vars

C2_Witness ==
    /\ pc \in { "update", "done" }
    /\ trade = None
    /\ failed_trades >= 1
    /\ successful_trades >= 1
    /\ capital # initial_capital

\* C3: after K completed iterations the two counters sum to K, every
\* iteration adds exactly 1 to exactly one of them, and the history holds
\* one record per successful trade.
C3_CountersSumToIterations ==
    /\ [](/\ successful_trades + failed_trades = i
          /\ Len(trades) = successful_trades
          /\ i <= num_iterations)
    /\ [][ i' # i =>
            /\ i' = i + 1
            /\ \/ successful_trades' = successful_trades + 1
                  /\ failed_trades' = failed_trades
               \/ successful_trades' = successful_trades
                  /\ failed_trades' = failed_trades + 1 ]_vars

C3_Witness ==
    /\ pc = "done"
    /\ i = num_iterations
    /\ successful_trades >= 1
    /\ failed_trades >= 1

\* C4: for each asset scanned the buy price is the minimum and the sell
\* price the maximum of its quotes, in whatever order the exchanges are
\* listed; a returned opportunity has buy_price <= every quote and
\* sell_price >= every quote of its asset.
C4_BuyMinSellMax ==
    Scanned =>
        /\ \A c \in CoinSet :
            /\ IsMinOf(Candidate(c).buy_price, prices[c])
            /\ IsMaxOf(Candidate(c).sell_price, prices[c])
            /\ \A r \in Reordered(prices[c]) :
                /\ r[LowestEntry(sorted(r))] = Candidate(c).buy_price
                /\ r[HighestEntry(sorted(r))] = Candidate(c).sell_price
        /\ opportunity # None =>
            \A k \in 1..Len(exchanges) :
                /\ RLe(opportunity[1].buy_price, prices[opportunity[1].coin][k])
                /\ RGe(opportunity[1].sell_price, prices[opportunity[1].coin][k])

C4_Witness ==
    /\ Scanned
    /\ opportunity # None
    /\ Len(exchanges) = 3
    /\ Cardinality(QuoteSet(prices[opportunity[1].coin])) = 3
    /\ opportunity[1].buy_exchange > opportunity[1].sell_exchange

\* C5: with exactly one exchange whose fee rate is > 0 the scan returns
\* none for every price and threshold, every iteration is a miss and the
\* capital never changes.
C5_SingleExchangeNeverTrades ==
    (Len(exchanges) = 1 /\ RGt(exchanges[1].trading_fee, R(0))) =>
        /\ opportunity = None
        /\ trades = << >>
        /\ successful_trades = 0
        /\ failed_trades = i
        /\ capital = initial_capital

C5_Witness ==
    /\ Len(exchanges) = 1
    /\ RGt(exchanges[1].trading_fee, R(0))
    /\ RLt(min_profit, R(0))
    /\ pc = "done"
    /\ i >= 2
    /\ \E c \in CoinSet : Qualifies(c)

\* C6: an opportunity executed at capital C trades 0.1 * C, buys
\* quantity = trade size / buy_price, earns net_profit = quantity *
\* ((sell_price - sell_fee) - (buy_price + buy_fee)), adds it to capital and
\* to the cumulative profit, adds 1 to the success counter only, and appends
\* one record whose capital_after is the new capital.
C6_TradeArithmetic ==
    [][ (pc = "execute" /\ opportunity # None) =>
          LET o == opportunity[1]
              quantity == RDiv(RDiv(capital, R(10)), o.buy_price)
              net_profit ==
                  RMul(quantity, RSub(RSub(o.sell_price, o.sell_fee),
                                      RAdd(o.buy_price, o.buy_fee)))
          IN  /\ capital' = RAdd(capital, net_profit)
              /\ total_profit' = RAdd(total_profit, net_profit)
              /\ successful_trades' = successful_trades + 1
              /\ failed_trades' = failed_trades
              /\ Len(trades') = Len(trades) + 1
              /\ SubSeq(trades', 1, Len(trades)) = trades
              /\ trades'[Len(trades')].quantity = quantity
              /\ trades'[Len(trades')].net_profit = net_profit
              /\ trades'[Len(trades')].capital_after = capital'
              /\ trade' = << trades'[Len(trades')] >> ]_vars

\* capital 10000, buy at 100, sell at 110, no fees: quantity 10, net
\* profit 100, capital 10100
C6_Witness ==
    /\ Len(trades) = 1
    /\ trades[1].buy_price = R(100)
    /\ trades[1].sell_price = R(110)
    /\ trades[1].total_fees = R(0)
    /\ trades[1].quantity = R(10)
    /\ trades[1].net_profit = R(100)
    /\ trades[1].capital_after = R(10100)
    /\ capital = R(10100)
    /\ total_profit = R(100)

\* C7: an invalid configuration (negative fee rate, negative price
\* variation, non-positive initial capital) is refused at construction, so
\* no iteration runs from it.
InvalidConfiguration ==
    \/ RLe(initial_capital, R(0))
    \/ \E k \in 1..Len(exchanges) :
        \/ RLt(exchanges[k].trading_fee, R(0))
        \/ RLt(exchanges[k].price_variation, R(0))

C7_InvalidConfigurationNeverRuns ==
    InvalidConfiguration => (pc \in { "idle", "config_error" } /\ i = 0)

\* C8 as stated: among exchanges tied for the minimum quote the first in
\* configured order buys, and among exchanges tied for the maximum quote
\* the first in configured order sells.
C8_FirstWinsTiesOnBothSides ==
    Scanned =>
        \A c \in CoinSet :
            /\ Candidate(c).buy_exchange = First(MinPositions(prices[c]))
            /\ Candidate(c).sell_exchange = First(MaxPositions(prices[c]))

\* C8 amended: among exchanges tied for the minimum quote the first in
\* configured order buys; among exchanges tied for the maximum quote the
\* last in configured order sells.
C8_FirstMinLastMax ==
    Scanned =>
        \A c \in CoinSet :
            /\ Candidate(c).buy_exchange = First(MinPositions(prices[c]))
            /\ Candidate(c).sell_exchange = Last(MaxPositions(prices[c]))

C8_Witness ==
    /\ Scanned
    /\ opportunity # None
    /\ Cardinality(MaxPositions(prices[opportunity[1].coin])) = 2
    /\ Cardinality(MinPositions(prices[opportunity[1].coin])) = 1
    /\ opportunity[1].sell_exchange = 3
    /\ \E c \in CoinSet : Cardinality(MinPositions(prices[c])) = 2

\* C9: a returned opportunity has the highest profit percentage of all
\* assets of the scan, and among assets sharing it the one earliest in the
\* configured asset order.
C9_BestAssetEarliestOnTies ==
    (Scanned /\ opportunity # None) =>
        /\ opportunity[1] = Candidate(opportunity[1].coin)
        /\ \A c \in CoinSet : RLe(Pct(c), opportunity[1].profit_pct)
        /\ \A c \in CoinSet :
              CoinPos(c) < CoinPos(opportunity[1].coin) =>
                  RLt(Pct(c), opportunity[1].profit_pct)

C9_Witness ==
    /\ Scanned
    /\ opportunity # None
    /\ opportunity[1].coin = coins[1]
    /\ Pct(coins[2]) = Pct(coins[1])

\* C10: from a positive initial capital every executed trade has
\* net_profit > 0, the capital never decreases and stays positive, and
\* capital = initial capital + total_profit throughout.
C10_CapitalOnlyGrows ==
    /\ [](/\ capital.n > 0
          /\ capital = RAdd(initial_capital, total_profit)
          /\ \A k \in 1..Len(trades) : RGt(trades[k].net_profit, R(0)))
    /\ [][ RSub(capital', capital).n >= 0 ]_vars

C10_Witness ==
    /\ pc = "done"
    /\ successful_trades >= 2
    /\ RLt(min_profit, R(0))
    /\ \E c \in CoinSet : ~Profitable(c)

====
